---- MODULE Spec2Model ----
(***************************************************************************)
(* Model of skytube.py: the seen-video store (load_seen_videos,            *)
(* save_seen_videos), the monitoring cycle (check_for_new_videos), the     *)
(* database build mode (build_database), the startup checks and the loop   *)
(* of main() (validate_config, the sleep), and post_to_bluesky.            *)
(*                                                                         *)
(* The process is one sequential control flow; pc is its position.  The    *)
(* outcomes of the outside world (what the feed returns, whether a post    *)
(* succeeds, whether a file operation fails, a Ctrl+C, a kill) are         *)
(* nondeterministic choices.                                               *)
(***************************************************************************)
EXTENDS Naturals, Sequences, FiniteSets

VARIABLES
    mode,       \* "monitor" | "build": args.build_db, fixed per process
    pc,         \* position of the process
    seen,       \* seen_videos, the in-memory set
    file,       \* content of the seen_videos_file on disk
    bak,        \* TRUE when <seen_file>.corrupt.bak exists
    entries,    \* the entries of get_videos() the for loop has still to visit
    fetched,    \* history: the entries get_videos() returned in this cycle
    postOk,     \* value post_to_bluesky returned for the current entry
    saveErr,    \* TRUE when the save for the current entry logged an error
    fetches,    \* number of get_videos() calls, over all processes
    restarts,   \* number of process starts after the first
    loaded,     \* history: the set load_seen_videos returned to this process
    postedEver, \* history: ids some process posted successfully
    runPosted,  \* history: ids this process posted successfully
    attempted,  \* history: ids post_to_bluesky was called for in this cycle
    failed,     \* history: ids for which this process saw a post fail
    file0,      \* history: the store file before the first process started
    readErr,    \* history: load_seen_videos could not read the file
    config,     \* the configuration dictionary load_config returned
    use_api,    \* args.use_api
    rss,        \* what feedparser.parse gives to one call of get_youtube_feed
    api,        \* the locals of one call of get_youtube_feed_api
    ret,        \* how one call of get_videos ended, and its value
    cyc,        \* one fetch gone through in two orders, with what each did
    prev,       \* the set the process before this one saved last, and how
    slept,      \* history: the seconds the last time.sleep of main() slept
    ended,      \* history: why the process ended ("no" while it runs)
    net,        \* what the network does to one call of post_to_bluesky
    post        \* what that call of post_to_bluesky did

vars == <<mode, pc, seen, file, bak, entries, fetched, postOk, saveErr, fetches,
          restarts, loaded, postedEver, runPosted, attempted, failed, file0,
          readErr, config, use_api, slept, ended, net, post, rss, api, ret,
          cyc, prev>>

\* the configuration and the provider, with the record of one call of
\* post_to_bluesky
setup == <<config, use_api, net, post, rss, api, ret, cyc, prev>>

\* what a cycle leaves alone
settings == <<setup, slept, ended>>

----------------------------------------------------------------------------
(* Bounds of the model                                                     *)

MaxEntries == 2     \* longest list get_videos() returns
MaxFetches == 2     \* get_videos() calls over all processes
MaxRestarts == 1    \* process restarts
MaxFileLen == 3     \* longest JSON list in an initial store file

Ids == {"v1", "v2"}

----------------------------------------------------------------------------
(* Feed entries: entry.get("yt_videoid", entry.get("id", "")) and          *)
(* entry.get("link", ""); "" is the missing value.                         *)

Entry(i, l) == [id |-> i, link |-> l]

EntryPool ==
    {Entry("v1", "u1"), Entry("v2", "u2"), Entry("", "u0"), Entry("v1", "")}

SeqsUpTo(S, n) == UNION {[1..k -> S] : k \in 0..n}

FetchResults == SeqsUpTo(EntryPool, MaxEntries)

----------------------------------------------------------------------------
(* The store file.  kind "list" is a JSON list of strings (data, in file   *)
(* order, repetitions allowed); "badjson" is text json.load rejects (an    *)
(* empty or cut-off file included); "nonlist" is valid JSON that is not a  *)
(* list; "missing" is no file.                                             *)

Missing == [kind |-> "missing", data |-> <<>>]
BadJson == [kind |-> "badjson", data |-> <<>>]
NonList == [kind |-> "nonlist", data |-> <<>>]
ListFile(s) == [kind |-> "list", data |-> s]

StoreContents ==
    {Missing, BadJson, NonList} \cup {ListFile(s) : s \in SeqsUpTo(Ids, MaxFileLen)}

\* a set(data) that keeps only the last element of the list
SetOf_Last(s) == IF s = <<>> THEN {} ELSE {s[Len(s)]}

\* set(data): the elements of the list, each once
RECURSIVE SetOf(_)
SetOf(s) == IF s = <<>> THEN {} ELSE {Head(s)} \cup SetOf(Tail(s))

\* the ids a store file holds
FileIds(f) == IF f.kind = "list" THEN SetOf(f.data) ELSE {}

\* a list(seen_videos) that loses one element of the set
ListsOf_Short(S) ==
    LET T == IF S = {} THEN {} ELSE S \ {CHOOSE x \in S : TRUE} IN
      {s \in [1..Cardinality(T) -> T] : \A i, j \in DOMAIN s : s[i] = s[j] => i = j}

\* list(seen_videos): the elements of the set, each once, in some order
ListsOf(S) ==
    {s \in [1..Cardinality(S) -> S] : \A i, j \in DOMAIN s : s[i] = s[j] => i = j}

----------------------------------------------------------------------------
(* load_seen_videos.  denied: open() raises PermissionError; renameOk:     *)
(* os.rename of a corrupted file succeeds.  The result is the returned set,*)
(* the file left on disk and whether the .corrupt.bak file was written.    *)

\* a load_seen_videos that also renames aside a file that is not a list
load_seen_videos_RenameAll(f, denied, renameOk) ==
    IF f.kind = "missing" THEN [set |-> {}, file |-> f, renamed |-> FALSE]
    ELSE IF denied THEN [set |-> {}, file |-> f, renamed |-> FALSE]
    ELSE IF f.kind \in {"badjson", "nonlist"} THEN
        IF renameOk THEN [set |-> {}, file |-> Missing, renamed |-> TRUE]
        ELSE [set |-> {}, file |-> f, renamed |-> FALSE]
    ELSE [set |-> SetOf(f.data), file |-> f, renamed |-> FALSE]

load_seen_videos(f, denied, renameOk) ==
    IF f.kind = "missing" THEN [set |-> {}, file |-> f, renamed |-> FALSE]
    ELSE IF denied THEN [set |-> {}, file |-> f, renamed |-> FALSE]
    ELSE IF f.kind = "badjson" THEN
        IF renameOk THEN [set |-> {}, file |-> Missing, renamed |-> TRUE]
        ELSE [set |-> {}, file |-> f, renamed |-> FALSE]
    ELSE IF f.kind = "nonlist" THEN [set |-> {}, file |-> f, renamed |-> FALSE]
    ELSE [set |-> SetOf(f.data), file |-> f, renamed |-> FALSE]

(* save_seen_videos: the outcomes of writing set S over file f.  open(.,   *)
(* "w") truncates the file and json.dump writes the list; a failure of     *)
(* open leaves the file as it was, a failure of the write leaves a cut-off *)
(* text.  err: an error was logged.                                        *)

\* a save that writes the new list after what the file held
save_seen_videos_Append(S, f) ==
    {[file |-> ListFile((IF f.kind = "list" THEN f.data ELSE <<>>) \o s),
      err |-> FALSE] : s \in ListsOf(S)}
        \cup {[file |-> f, err |-> TRUE], [file |-> BadJson, err |-> TRUE]}

save_seen_videos(S, f) ==
    {[file |-> ListFile(s), err |-> FALSE] : s \in ListsOf(S)}
        \cup {[file |-> f, err |-> TRUE], [file |-> BadJson, err |-> TRUE]}

----------------------------------------------------------------------------
(* check_for_new_videos: the tests of the for loop                         *)

video_id(e) == e.id
video_url(e) == e.link

\* a test that never finds the id, and one that also gives up on an id
\* whose post failed before
AlreadySeen_Never(e, S) == FALSE
\* a test against the set as it was loaded, not as it is now
AlreadySeen_AtStart(e, S) == video_id(e) \in loaded
AlreadySeen_OrFailed(e, S) == video_id(e) \in S \/ video_id(e) \in failed

\* if video_id in seen_videos
AlreadySeen(e, S) == video_id(e) \in S
\* a test of the id alone
MissingData_IdOnly(e) == video_id(e) = ""

\* if not video_id / if not video_url
MissingData(e) == video_id(e) = "" \/ video_url(e) = ""

\* an add that is lost
AddSeen_Dropped(S, i) == S

\* seen_videos.add(video_id)
AddSeen(S, i) == S \cup {i}

\* the entry the for loop is at, and whether there is one
Cur == Head(entries)
InLoop == entries # <<>>

Range(s) == {s[i] : i \in DOMAIN s}
\* the ids of a set of entries, the missing id left out
IdsOf(E) == {video_id(e) : e \in E} \ {""}

Alive == pc \notin {"stopped", "crashed", "done"}

----------------------------------------------------------------------------
(* The configuration.  A text field is "" when the key is absent or empty. *)
(* check_interval_seconds is absent, or a value of some YAML type: kind    *)
(* "int" (val seconds), "str", "nan" (the float .nan) or "huge" (a float   *)
(* beyond what time.sleep accepts, .inf included).                         *)

Absent == [kind |-> "absent", val |-> 0]
NotANumber == [kind |-> "str", val |-> 0]
NaN == [kind |-> "nan", val |-> 0]
Huge == [kind |-> "huge", val |-> 0]
Seconds(n) == [kind |-> "int", val |-> n]

\* the value after which a positive count of seconds is treated alike
DefaultInterval == 600

Config(c, h, p, k, i) ==
    [channel |-> c, handle |-> h, password |-> p, api_key |-> k, interval |-> i]

ValidConfig == Config("UCok", "me.bsky.social", "pw", "key", Absent)

\* isinstance(check_interval, (int, float))
IsNumber(i) == i.kind \in {"int", "nan", "huge"}

\* check_interval <= 0: false for every comparison with NaN
NotPositive(i) == i.kind = "int" /\ ~ (i.val > 0)

\* "not isinstance(check_interval, (int, float)) or check_interval <= 0"
FallsBack(i) == ~ IsNumber(i) \/ NotPositive(i)

\* the value main() passes to time.sleep
check_interval ==
    LET i == IF config.interval = Absent THEN Seconds(DefaultInterval)
             ELSE config.interval
    IN IF FallsBack(i) THEN Seconds(DefaultInterval) ELSE i

\* time.sleep(x) raises ValueError for NaN and OverflowError for a value
\* beyond the platform's time range (a negative x would raise ValueError)
SleepRaises(x) == x.kind \in {"nan", "huge"} \/ (x.kind = "int" /\ x.val < 0)

----------------------------------------------------------------------------
(* post_to_bluesky.  What the network does to one call: login (client.     *)
(* login returns), template (post_template.format returns "ok", raises     *)
(* KeyError for an unknown named field such as {channel} "keyerror",       *)
(* raises IndexError for a positional field such as {0} or {}              *)
(* "indexerror", or raises something else, as ValueError for an unbalanced *)
(* brace, "badformat"), idOk (extract_video_id finds an id in the url),    *)
(* cands (per thumbnail url, in order: "image" a body of more than 1000    *)
(* bytes, "small" a smaller one, "error" a timeout, connection or HTTP     *)
(* error), upload (client.upload_blob returns), send (client.send_post     *)
(* returns).                                                               *)

\* the thumbnail urls get_video_thumbnail tries
NumThumbnails == 3

Templates == {"ok", "keyerror", "indexerror", "badformat"}

Nets ==
    [login : BOOLEAN, template : Templates,
     idOk : BOOLEAN, cands : [1..NumThumbnails -> {"image", "small", "error"}],
     upload : BOOLEAN, send : BOOLEAN]

NoNet ==
    [login |-> FALSE, template |-> "ok", idOk |-> FALSE,
     cands |-> [i \in 1..NumThumbnails |-> "error"], upload |-> FALSE,
     send |-> FALSE]

\* the for loop over thumbnail_urls: TRUE when a blob is returned
RECURSIVE TryThumbnails(_, _)
TryThumbnails(cands, upload) ==
    IF cands = <<>> THEN FALSE
    ELSE IF Head(cands) = "image" THEN upload
    ELSE TryThumbnails(Tail(cands), upload)

\* a loop that goes on to the next url after it was given an image
Requested_All(cands) == Len(cands)

\* the for loop over thumbnail_urls: how many urls requests.get was called on
RECURSIVE Requested(_)
Requested(cands) ==
    IF cands = <<>> THEN 0
    ELSE IF Head(cands) = "image" THEN 1
    ELSE 1 + Requested(Tail(cands))

\* the for loop over thumbnail_urls: the position of the url whose body was
\* handed to client.upload_blob, 0 when none was
RECURSIVE Uploaded(_, _)
Uploaded(cands, i) ==
    IF cands = <<>> THEN 0
    ELSE IF Head(cands) = "image" THEN i
    ELSE Uploaded(Tail(cands), i + 1)

\* get_video_thumbnail(client, video_url): TRUE for a blob, FALSE for None
get_video_thumbnail(n) == n.idOk /\ TryThumbnails(n.cands, n.upload)

\* what a call did: login (client.login returned), sent (client.send_post
\* returned), image (the embed carried a thumbnail), fallback (the default
\* text replaced the template), ok (the value returned), tried (thumbnail
\* urls requested), upl (position of the thumbnail url whose body went to
\* upload_blob, 0 for none), sends (calls of client.send_post)
PostResult(l, s, i, f, r, t, u, c) ==
    [login |-> l, sent |-> s, image |-> i, fallback |-> f, ok |-> r,
     tried |-> t, upl |-> u, sends |-> c]

NoPost == PostResult(FALSE, FALSE, FALSE, FALSE, FALSE, 0, 0, 0)

\* the return value of template.format is used: FALSE when it raised
\* something the inner handler does not catch
Formats(n) == n.template \in {"ok", "keyerror"}

\* a post_to_bluesky that gives up when there is no thumbnail
post_to_bluesky_NeedsThumb(c, n) ==
    LET t == IF n.idOk THEN Requested(n.cands) ELSE 0
        u == IF n.idOk THEN Uploaded(n.cands, 1) ELSE 0
        f == n.template = "keyerror"
    IN  IF c.handle = "" \/ c.password = "" THEN NoPost
        ELSE IF ~ n.login THEN NoPost
        ELSE IF ~ Formats(n)
             THEN PostResult(TRUE, FALSE, FALSE, FALSE, FALSE, 0, 0, 0)
        ELSE IF ~ get_video_thumbnail(n)
             THEN PostResult(TRUE, FALSE, FALSE, f, FALSE, t, u, 0)
        ELSE IF ~ n.send
             THEN PostResult(TRUE, FALSE, FALSE, f, FALSE, t, u, 1)
        ELSE PostResult(TRUE, TRUE, TRUE, f, TRUE, t, u, 1)

\* a post_to_bluesky that goes on after client.login raised
post_to_bluesky_IgnoresLogin(c, n) ==
    LET t == IF n.idOk THEN Requested(n.cands) ELSE 0
        u == IF n.idOk THEN Uploaded(n.cands, 1) ELSE 0
        f == n.template = "keyerror"
    IN  IF c.handle = "" \/ c.password = "" THEN NoPost
        ELSE IF ~ Formats(n)
             THEN PostResult(n.login, FALSE, FALSE, FALSE, FALSE, 0, 0, 0)
        ELSE IF ~ n.send \/ ~ n.login
             THEN PostResult(n.login, FALSE, FALSE, f, FALSE, t, u, 1)
        ELSE PostResult(TRUE, TRUE, get_video_thumbnail(n), f, TRUE, t, u, 1)

post_to_bluesky(c, n) ==
    LET t == IF n.idOk THEN Requested(n.cands) ELSE 0
        u == IF n.idOk THEN Uploaded(n.cands, 1) ELSE 0
        f == n.template = "keyerror"
    IN  IF c.handle = "" \/ c.password = "" THEN NoPost
        ELSE IF ~ n.login THEN NoPost
        ELSE IF ~ Formats(n)
             THEN PostResult(TRUE, FALSE, FALSE, FALSE, FALSE, 0, 0, 0)
        ELSE IF ~ n.send
             THEN PostResult(TRUE, FALSE, FALSE, f, FALSE, t, u, 1)
        ELSE PostResult(TRUE, TRUE, get_video_thumbnail(n), f, TRUE, t, u, 1)

----------------------------------------------------------------------------
(* get_videos: get_youtube_feed and get_youtube_feed_api                   *)

\* the provider's cap on maxResults of one playlistItems request
PageCap == 50

\* the api_max_results used when the configured one is not an integer >= 1
DefaultMaxResults == 15

\* page requests of one call the model follows
MaxPages == 3

Min(a, b) == IF a < b THEN a ELSE b

\* values of api_max_results: absent, a string, numbers
NoMax == [kind |-> "absent", val |-> 0]
TextMax == [kind |-> "str", val |-> 0]
IntMax(n) == [kind |-> "int", val |-> n]
ApiMaxValues == {NoMax, TextMax, IntMax(0), IntMax(1), IntMax(3), IntMax(52)}

\* max_results after the isinstance / < 1 test
max_results(m) ==
    IF m.kind = "absent" THEN DefaultMaxResults
    ELSE IF m.kind # "int" \/ m.val < 1 THEN DefaultMaxResults
    ELSE m.val

\* a per_page that asks for all that is missing
per_page_NoCap(remaining) == remaining

\* per_page = min(remaining, 50)
per_page(remaining) == Min(remaining, PageCap)

\* channel_id.startswith("UC")
StartsWithUC(c) == c = "UCok"

\* How one page request ends: the status codes with a branch of their own,
\* "500" for any other status raise_for_status refuses, "timeout",
\* "connerr", "reqerr" for the exceptions of requests.get, "badjson" for a
\* body response.json cannot decode, "apierror" for a body with an "error"
\* key, "ok" for a page of items.
StatusErrors == {"403", "404", "400", "429", "500"}
Exceptions == {"timeout", "connerr", "reqerr", "badjson"}
PageErrors == StatusErrors \cup Exceptions \cup {"apierror"}

\* handlers that let a timeout through
ApiCaught_NoTimeout == Exceptions \ {"timeout"}

\* the except clauses after the while loop
ApiCaught == Exceptions

\* a page: kind, n items, which of them lack a videoId ("none", "first",
\* "all"), more (a nextPageToken is given)
Page(k, n, l, m) == [kind |-> k, n |-> n, lacking |-> l, more |-> m]

\* the pages a provider that honours maxResults can answer with
Pages(per) ==
    {Page(k, 0, "none", FALSE) : k \in PageErrors}
    \cup {Page("ok", n, l, m) : n \in {0, 1, per}, l \in {"none", "first", "all"},
                                m \in BOOLEAN}

\* the entries the for loop over items appends for page number p: item i of
\* the page is <<p, i>>
Kept(p, pg) ==
    IF pg.lacking = "all" \/ pg.n = 0 THEN <<>>
    ELSE IF pg.lacking = "first" THEN [j \in 1..(pg.n - 1) |-> <<p, j + 1>>]
    ELSE [j \in 1..pg.n |-> <<p, j>>]

\* a handler that returns [] whatever was accumulated
OnError_Empty(all_entries) == <<>>

\* return all_entries if all_entries else []
OnError(all_entries) == all_entries

\* the locals: conf (api_max_results as configured), max (max_results), acc
\* (all_entries), token (next_page_token is set), reqs (per request:
\* maxResults sent, len(all_entries) then, pageToken sent), served (the
\* pages answered)
NoApi ==
    [conf |-> NoMax, max |-> 0, acc |-> <<>>, token |-> FALSE, reqs |-> <<>>,
     served |-> <<>>]

\* feedparser.parse: raises, or gives a feed with bozo and entries
NoRss == [raises |-> FALSE, bozo |-> FALSE, entries |-> <<>>]
RssFeeds == [raises : BOOLEAN, bozo : BOOLEAN, entries : FetchResults]

\* a get_youtube_feed that returns [] for a feed with bozo set
get_youtube_feed_BozoEmpty(f) ==
    IF f.raises \/ f.bozo THEN <<>> ELSE f.entries

\* get_youtube_feed(): the value returned
get_youtube_feed(f) ==
    IF f.raises THEN <<>>
    ELSE IF f.entries = <<>> THEN <<>>
    ELSE f.entries

\* get_youtube_feed(): a log_warning or log_exception was written
FeedWarned(f) == f.raises \/ f.bozo \/ f.entries = <<>>

\* One call of check_for_new_videos as a function of its inputs: the
\* entries, seen_videos and the store before, ok (per id, what
\* post_to_bluesky returns), saves (per call of save_seen_videos in turn:
\* "ok", "kept" when open fails and the file stays, "cut" when the write
\* fails and leaves a cut-off text).  The store is given by the set of ids
\* its list holds.
SaveKinds == {"ok", "kept", "cut"}
IdFile(S) == [kind |-> "list", ids |-> S]
CutFile == [kind |-> "badjson", ids |-> {}]

\* seen (seen_videos), file (the store), attempted (ids post_to_bluesky was
\* called for), saved (calls of save_seen_videos)
CycleState(S, f, a, k) == [seen |-> S, file |-> f, attempted |-> a, saved |-> k]

\* a loop that is left at the first failed post
AfterFailure_Stops(es) == <<>>

\* the else branch: the loop goes on with the next entry
AfterFailure(es) == Tail(es)

RECURSIVE RunCycle(_, _, _, _)
RunCycle(es, st, ok, saves) ==
    IF es = <<>> THEN st
    ELSE LET e == Head(es) IN
      IF AlreadySeen(e, st.seen) \/ MissingData(e)
      THEN RunCycle(Tail(es), st, ok, saves)
      ELSE LET a == st.attempted \cup {video_id(e)} IN
        IF ok[video_id(e)]
        THEN LET S == AddSeen(st.seen, video_id(e))
                 k == st.saved + 1
                 f == IF saves[k] = "ok" THEN IdFile(S)
                      ELSE IF saves[k] = "kept" THEN st.file
                      ELSE CutFile
             IN  RunCycle(Tail(es), CycleState(S, f, a, k), ok, saves)
        ELSE RunCycle(AfterFailure(es), [st EXCEPT !.attempted = a], ok, saves)

\* the same entries in another order
Orderings(es) ==
    {[i \in DOMAIN es |-> es[p[i]]] :
       p \in {q \in [DOMAIN es -> DOMAIN es] :
                \A i, j \in DOMAIN es : q[i] = q[j] => i = j}}

NoCycleState == CycleState({}, IdFile({}), {}, 0)

\* es (the fetch), other (the second order), seen0, ok, saves (the inputs),
\* first and second (what the cycle did in each order)
NoCyc ==
    [es |-> <<>>, other |-> <<>>, seen0 |-> {},
     ok |-> [i \in Ids |-> FALSE],
     saves |-> [k \in 1..MaxEntries |-> "ok"],
     first |-> NoCycleState, second |-> NoCycleState]

\* how get_videos ended: "none" (not yet), "returned", "raised"
Ret(st, items, w) == [state |-> st, items |-> items, warned |-> w]
NoRet == Ret("none", <<>>, FALSE)

\* set (the seen_videos given to save_seen_videos), ok (the save wrote it)
NoPrev == [set |-> {}, ok |-> FALSE]

NoFetch ==
    rss = NoRss /\ api = NoApi /\ ret = NoRet /\ cyc = NoCyc /\ prev = NoPrev

----------------------------------------------------------------------------
Modes == {"monitor", "build"}

\* the store files a first start of the script finds
InitStores == {Missing, ListFile(<<"v1">>)}

Fresh ==
    /\ seen = {} /\ entries = <<>> /\ fetched = {}
    /\ postOk = FALSE /\ saveErr = FALSE /\ loaded = {}
    /\ runPosted = {} /\ attempted = {} /\ failed = {}
    /\ readErr = FALSE

\* the memory of a process that has ended
Forget ==
    /\ seen' = {} /\ entries' = <<>> /\ fetched' = {}
    /\ postOk' = FALSE /\ saveErr' = FALSE /\ loaded' = {}
    /\ runPosted' = {} /\ attempted' = {} /\ failed' = {}
    /\ readErr' = FALSE /\ slept' = 0

Init ==
    /\ mode \in Modes
    /\ pc = "load"
    /\ file \in InitStores
    /\ file0 = file
    /\ bak = FALSE
    /\ fetches = 0 /\ restarts = 0
    /\ postedEver = {}
    /\ config = ValidConfig
    /\ use_api = FALSE
    /\ slept = 0 /\ ended = "no"
    /\ net = NoNet /\ post = NoPost /\ NoFetch
    /\ Fresh

\* seen_videos = load_seen_videos(), under every outcome of the file
\* operations
DoLoad ==
    \E denied, renameOk \in BOOLEAN :
      LET r == load_seen_videos(file, denied, renameOk) IN
        /\ seen' = r.set
        /\ loaded' = r.set
        /\ file' = r.file
        /\ bak' = (bak \/ r.renamed)
        /\ readErr' = (denied /\ file.kind # "missing")

\* main() line 1619 and build_database() line 1303
Load ==
    /\ pc = "load"
    /\ DoLoad
    /\ pc' = "fetch"
    /\ UNCHANGED <<settings, mode, entries, postOk, saveErr, fetches, restarts,
                   postedEver, runPosted, attempted, failed, file0,
                   fetched>>

\* entries = get_videos(), and the test "if not entries"
Fetch ==
    /\ pc = "fetch"
    /\ fetches < MaxFetches
    /\ \E r \in FetchResults :
         /\ entries' = r
         /\ fetched' = Range(r)
         /\ pc' = IF r # <<>> THEN "item"
                  ELSE IF mode = "monitor" THEN "sleep" ELSE "done"
    /\ fetches' = fetches + 1
    /\ attempted' = {}
    /\ UNCHANGED <<settings, mode, seen, file, bak, postOk, saveErr, restarts, loaded,
                   postedEver, runPosted, failed, file0, readErr>>

\* the three "continue" branches of the loop
SkipItem ==
    /\ mode = "monitor" /\ pc = "item" /\ InLoop
    /\ AlreadySeen(Cur, seen) \/ MissingData(Cur)
    /\ entries' = Tail(entries)
    /\ UNCHANGED <<settings, mode, pc, seen, file, bak, postOk, saveErr, fetches,
                   restarts, loaded, postedEver, runPosted, attempted, failed,
                   file0, readErr, fetched>>

\* the call post_to_bluesky(video_title, video_url)
StartPost ==
    /\ mode = "monitor" /\ pc = "item" /\ InLoop
    /\ ~ AlreadySeen(Cur, seen) /\ ~ MissingData(Cur)
    /\ pc' = "post"
    /\ attempted' = attempted \cup {video_id(Cur)}
    /\ UNCHANGED <<settings, mode, seen, file, bak, entries, postOk, saveErr, fetches,
                   restarts, loaded, postedEver, runPosted, failed, file0,
                   readErr, fetched>>

\* post_to_bluesky returns True
PostSucceeds ==
    /\ pc = "post"
    /\ postOk' = TRUE
    /\ pc' = "mark"
    /\ postedEver' = postedEver \cup {video_id(Cur)}
    /\ runPosted' = runPosted \cup {video_id(Cur)}
    /\ UNCHANGED <<settings, mode, seen, file, bak, entries, saveErr, fetches, restarts,
                   loaded, attempted, failed, file0, readErr, fetched>>

\* an else branch that records the id all the same
PostFails_Marks ==
    /\ pc = "post"
    /\ postOk' = FALSE
    /\ pc' = "delay"
    /\ failed' = failed \cup {video_id(Cur)}
    /\ seen' = AddSeen(seen, video_id(Cur))
    /\ UNCHANGED <<settings, mode, file, bak, entries, saveErr, fetches, restarts,
                   loaded, postedEver, runPosted, attempted, file0,
                   readErr, fetched>>

\* an else branch that leaves the loop
PostFails_SkipsRest ==
    /\ pc = "post"
    /\ postOk' = FALSE
    /\ pc' = "delay"
    /\ entries' = <<Cur>>
    /\ failed' = failed \cup {video_id(Cur)}
    /\ UNCHANGED <<settings, mode, seen, file, bak, saveErr, fetches, restarts,
                   loaded, postedEver, runPosted, attempted, file0,
                   readErr, fetched>>

\* an else branch that goes to the next entry without time.sleep(2)
PostFails_NoDelay ==
    /\ pc = "post"
    /\ postOk' = FALSE
    /\ pc' = "item"
    /\ entries' = Tail(entries)
    /\ failed' = failed \cup {video_id(Cur)}
    /\ UNCHANGED <<settings, mode, seen, file, bak, saveErr, fetches, restarts,
                   loaded, postedEver, runPosted, attempted, file0,
                   readErr, fetched>>

\* post_to_bluesky returns False: the else branch
PostFails ==
    /\ pc = "post"
    /\ postOk' = FALSE
    /\ pc' = "delay"
    /\ failed' = failed \cup {video_id(Cur)}
    /\ UNCHANGED <<settings, mode, seen, file, bak, entries, saveErr, fetches, restarts,
                   loaded, postedEver, runPosted, attempted, file0,
                   readErr, fetched>>

\* a success branch that does not save, and one that takes the id back
\* when the save fails
MarkSeen_NoSave ==
    /\ pc = "mark"
    /\ seen' = AddSeen(seen, video_id(Cur))
    /\ pc' = "delay"
    /\ UNCHANGED <<settings, mode, file, saveErr, bak, entries, postOk, fetches, restarts,
                   loaded, postedEver, runPosted, attempted, failed, file0,
                   readErr, fetched>>

MarkSeen_RollBack ==
    /\ pc = "mark"
    /\ \E o \in save_seen_videos(AddSeen(seen, video_id(Cur)), file) :
         /\ file' = o.file
         /\ saveErr' = o.err
         /\ seen' = IF o.err THEN seen ELSE AddSeen(seen, video_id(Cur))
    /\ pc' = "delay"
    /\ UNCHANGED <<settings, mode, bak, entries, postOk, fetches, restarts, loaded,
                   postedEver, runPosted, attempted, failed, file0,
                   readErr, fetched>>

\* a success branch that saves before it adds
MarkSeen_SaveOld ==
    /\ pc = "mark"
    /\ seen' = AddSeen(seen, video_id(Cur))
    /\ \E o \in save_seen_videos(seen, file) :
         /\ file' = o.file
         /\ saveErr' = o.err
    /\ pc' = "delay"
    /\ UNCHANGED <<settings, mode, bak, entries, postOk, fetches, restarts, loaded,
                   postedEver, runPosted, attempted, failed, file0,
                   readErr, fetched>>

\* seen_videos.add(video_id); save_seen_videos(seen_videos)
MarkSeen ==
    /\ pc = "mark"
    /\ seen' = AddSeen(seen, video_id(Cur))
    /\ \E o \in save_seen_videos(seen', file) :
         /\ file' = o.file
         /\ saveErr' = o.err
    /\ pc' = "delay"
    /\ UNCHANGED <<settings, mode, bak, entries, postOk, fetches, restarts, loaded,
                   postedEver, runPosted, attempted, failed, file0,
                   readErr, fetched>>

\* time.sleep(2), then the next entry
Delay ==
    /\ pc = "delay"
    /\ entries' = Tail(entries)
    /\ pc' = "item"
    /\ postOk' = FALSE /\ saveErr' = FALSE
    /\ UNCHANGED <<settings, mode, seen, file, bak, fetches, restarts, loaded,
                   postedEver, runPosted, attempted, failed, file0,
                   readErr, fetched>>

\* a main() whose while loop calls check_for_new_videos again at once
EndCycle_NoSleep ==
    /\ mode = "monitor" /\ pc = "item" /\ ~ InLoop
    /\ pc' = "fetch"
    /\ UNCHANGED <<settings, mode, seen, file, bak, entries, postOk, saveErr, fetches,
                   restarts, loaded, postedEver, runPosted, attempted, failed,
                   file0, readErr, fetched>>

\* the loop is over: check_for_new_videos returns to main()
EndCycle ==
    /\ mode = "monitor" /\ pc = "item" /\ ~ InLoop
    /\ pc' = "sleep"
    /\ UNCHANGED <<settings, mode, seen, file, bak, entries, postOk, saveErr, fetches,
                   restarts, loaded, postedEver, runPosted, attempted, failed,
                   file0, readErr, fetched>>

\* time.sleep(check_interval) returns and the while loop calls
\* check_for_new_videos again
Sleep ==
    /\ pc = "sleep"
    /\ fetches < MaxFetches
    /\ ~ SleepRaises(check_interval)
    /\ slept' = check_interval.val
    /\ pc' = "fetch"
    /\ entries' = <<>> /\ fetched' = {} /\ attempted' = {}
    /\ UNCHANGED <<setup, ended, mode, seen, file, bak, postOk,
                   saveErr, fetches, restarts, loaded, postedEver, runPosted,
                   failed, file0, readErr>>

\* time.sleep(check_interval) raises ValueError or OverflowError: no handler
\* of main() catches it and the process ends with a traceback
SleepFails ==
    /\ pc = "sleep"
    /\ SleepRaises(check_interval)
    /\ pc' = "crashed"
    /\ ended' = "error"
    /\ Forget
    /\ UNCHANGED <<setup, mode, file, bak, fetches, restarts,
                   postedEver, file0>>

\* a check_for_new_videos that adds to a copy of the set, so that an
\* exception leaves main() with the set as it was loaded
CycleFault_OnCopy ==
    /\ mode = "monitor" /\ pc \in {"fetch", "item", "delay"}
    /\ pc' = "sleep"
    /\ seen' = loaded
    /\ UNCHANGED <<settings, mode, file, bak, entries, postOk, saveErr, fetches,
                   restarts, loaded, postedEver, runPosted, attempted, failed,
                   file0, readErr, fetched>>

\* an Exception raised inside check_for_new_videos (a print that fails in
\* one of the log calls) reaches "except Exception" of main()
CycleFault ==
    /\ mode = "monitor" /\ pc \in {"fetch", "item", "delay"}
    /\ pc' = "sleep"
    /\ UNCHANGED <<settings, mode, seen, file, bak, entries, postOk, saveErr, fetches,
                   restarts, loaded, postedEver, runPosted, attempted, failed,
                   file0, readErr, fetched>>

\* the for loop of build_database
BuildItem ==
    /\ mode = "build" /\ pc = "item" /\ InLoop
    /\ seen' = IF video_id(Cur) # "" /\ video_id(Cur) \notin seen
               THEN AddSeen(seen, video_id(Cur)) ELSE seen
    /\ entries' = Tail(entries)
    /\ UNCHANGED <<settings, mode, pc, file, bak, postOk, saveErr, fetches, restarts,
                   loaded, postedEver, runPosted, attempted, failed, file0,
                   readErr, fetched>>

\* a final save that writes only the newly registered ids
BuildSave_OnlyNew ==
    /\ mode = "build" /\ pc = "item" /\ ~ InLoop
    /\ \E o \in save_seen_videos(seen \ loaded, file) :
         /\ file' = o.file
         /\ saveErr' = o.err
    /\ pc' = "done"
    /\ UNCHANGED <<settings, mode, seen, bak, entries, postOk, fetches, restarts, loaded,
                   postedEver, runPosted, attempted, failed, file0,
                   readErr, fetched>>

\* save_seen_videos(seen_videos) after the loop of build_database
BuildSave ==
    /\ mode = "build" /\ pc = "item" /\ ~ InLoop
    /\ \E o \in save_seen_videos(seen, file) :
         /\ file' = o.file
         /\ saveErr' = o.err
    /\ pc' = "done"
    /\ UNCHANGED <<settings, mode, seen, bak, entries, postOk, fetches, restarts, loaded,
                   postedEver, runPosted, attempted, failed, file0,
                   readErr, fetched>>

\* a KeyboardInterrupt that main() handles like any other exception
Interrupt_AsFault ==
    /\ Alive
    /\ pc' = "sleep"
    /\ ended' = "interrupt"
    /\ UNCHANGED <<setup, slept, mode, seen, file, bak, entries,
                   postOk, saveErr, fetches, restarts, loaded, postedEver,
                   runPosted, attempted, failed, file0, readErr, fetched>>

\* KeyboardInterrupt: caught by main() around the cycle and around
\* time.sleep ("break"); uncaught anywhere else: before the loop, in build
\* mode, and between the two try blocks (pc = "sleep" stands for the lines
\* from the end of the cycle to the return of time.sleep)
Interrupt ==
    /\ Alive
    /\ pc' \in (IF mode = "monitor" /\ pc \notin {"load", "sleep"} THEN {"stopped"}
               ELSE IF mode = "monitor" /\ pc = "sleep" THEN {"stopped", "crashed"}
               ELSE {"crashed"})
    /\ ended' = "interrupt"
    /\ Forget
    /\ UNCHANGED <<setup, mode, file, bak, fetches, restarts, postedEver,
                   file0>>

\* the process is killed or the machine stops
Crash ==
    /\ Alive
    /\ pc' = "crashed"
    /\ ended' = "kill"
    /\ Forget
    /\ UNCHANGED <<setup, mode, file, bak, fetches, restarts, postedEver,
                   file0>>

\* the set save_seen_videos is called with at the current position
SavingSet == IF pc = "mark" THEN AddSeen(seen, video_id(Cur)) ELSE seen

\* the process is killed, or Ctrl+C arrives, inside save_seen_videos between
\* open(seen_file, "w"), which has emptied the file, and the end of the
\* write: a cut-off text is left on disk
CrashInSave ==
    /\ \/ mode = "monitor" /\ pc = "mark"
       \/ mode = "build" /\ pc = "item" /\ ~ InLoop
    /\ file' = BadJson
    /\ \/ pc' = "crashed" /\ ended' \in {"kill", "interrupt"} /\ mode = "build"
       \/ pc' = "crashed" /\ ended' = "kill" /\ mode = "monitor"
       \/ pc' = "stopped" /\ ended' = "interrupt" /\ mode = "monitor"
    /\ Forget
    /\ UNCHANGED <<setup, mode, bak, fetches, restarts, postedEver, file0>>

\* the script is started again
Restart ==
    /\ ~ Alive
    /\ restarts < MaxRestarts
    /\ restarts' = restarts + 1
    /\ mode' \in Modes
    /\ pc' = "load"
    /\ ended' = "no"
    /\ Forget
    /\ UNCHANGED <<setup, file, bak, fetches, postedEver, file0>>

Next ==
    \/ Load \/ Fetch \/ SkipItem \/ StartPost \/ PostSucceeds \/ PostFails
    \/ MarkSeen \/ Delay \/ EndCycle \/ Sleep \/ CycleFault
    \/ BuildItem \/ BuildSave \/ Interrupt \/ Crash \/ CrashInSave \/ Restart

\* the configuration of Spec is ValidConfig, under which time.sleep always
\* returns
Spec == Init /\ [][Next]_vars

----------------------------------------------------------------------------
(* One monitoring process, from load_seen_videos() to its end, under every *)
(* value of check_interval_seconds.                                        *)

Intervals ==
    {Absent, NotANumber, Seconds(0), Seconds(0 - 5), Seconds(30), NaN, Huge}

LoopInit ==
    /\ mode = "monitor"
    /\ pc = "load"
    /\ file \in InitStores
    /\ file0 = file
    /\ bak = FALSE
    /\ fetches = 0 /\ restarts = 0
    /\ postedEver = {}
    /\ \E i \in Intervals :
         config = Config("UCok", "me.bsky.social", "pw", "key", i)
    /\ use_api = FALSE
    /\ slept = 0 /\ ended = "no"
    /\ net = NoNet /\ post = NoPost /\ NoFetch
    /\ Fresh

LoopNext ==
    \/ Load \/ Fetch \/ SkipItem \/ StartPost \/ PostSucceeds \/ PostFails
    \/ MarkSeen \/ Delay \/ EndCycle \/ Sleep \/ SleepFails \/ CycleFault
    \/ Interrupt \/ Crash \/ CrashInSave

SpecLoop == LoopInit /\ [][LoopNext]_vars

\* One monitoring process with an interval time.sleep accepts, which keeps
\* running: a step of the program that can be taken is taken, while a
\* fault, a Ctrl+C or a kill may or may not come.
RetryInit ==
    /\ mode = "monitor"
    /\ pc = "load"
    /\ file = Missing
    /\ file0 = file
    /\ bak = FALSE
    /\ fetches = 0 /\ restarts = 0
    /\ postedEver = {}
    /\ \E i \in {Absent, Seconds(30)} :
         config = Config("UCok", "me.bsky.social", "pw", "key", i)
    /\ use_api = FALSE
    /\ slept = 0 /\ ended = "no"
    /\ net = NoNet /\ post = NoPost /\ NoFetch
    /\ Fresh

\* the steps of the program itself
Program ==
    \/ Load \/ Fetch \/ SkipItem \/ StartPost \/ PostSucceeds \/ PostFails
    \/ MarkSeen \/ Delay \/ EndCycle \/ Sleep

RetryNext == Program \/ CycleFault \/ Interrupt \/ Crash \/ CrashInSave

SpecRetry == RetryInit /\ [][RetryNext]_vars /\ WF_vars(Program)

----------------------------------------------------------------------------
(* The store on its own: save_seen_videos(load_seen_videos()) applied to   *)
(* every content of the store file.                                        *)

StoreInit ==
    /\ mode = "monitor"
    /\ pc = "rt_load"
    /\ file \in StoreContents
    /\ file0 = file
    /\ bak = FALSE
    /\ fetches = 0 /\ restarts = 0
    /\ postedEver = {}
    /\ config = ValidConfig
    /\ use_api = FALSE
    /\ slept = 0 /\ ended = "no"
    /\ net = NoNet /\ post = NoPost /\ NoFetch
    /\ Fresh

RoundTripLoad ==
    /\ pc = "rt_load"
    /\ DoLoad
    /\ pc' = "rt_save"
    /\ UNCHANGED <<settings, mode, entries, postOk, saveErr, fetches, restarts,
                   postedEver, runPosted, attempted, failed, file0, fetched>>

RoundTripSave ==
    /\ pc = "rt_save"
    /\ \E o \in save_seen_videos(seen, file) :
         /\ file' = o.file
         /\ saveErr' = o.err
    /\ pc' = "rt_done"
    /\ UNCHANGED <<settings, mode, seen, bak, entries, postOk, fetches, restarts, loaded,
                   postedEver, runPosted, attempted, failed, file0,
                   readErr, fetched>>

StoreNext == RoundTripLoad \/ RoundTripSave

SpecStore == StoreInit /\ [][StoreNext]_vars

\* save_seen_videos(S) by one process, its end, and load_seen_videos() by
\* the next: every set S over every content of the file, every outcome of
\* the write and of the read.
ReloadInit ==
    /\ mode = "monitor"
    /\ pc = "rs_save"
    /\ file \in StoreContents
    /\ file0 = file
    /\ bak = FALSE
    /\ fetches = 0 /\ restarts = 0
    /\ postedEver = {}
    /\ config = ValidConfig
    /\ use_api = FALSE
    /\ slept = 0 /\ ended = "no"
    /\ net = NoNet /\ post = NoPost
    /\ rss = NoRss /\ api = NoApi /\ ret = NoRet /\ cyc = NoCyc /\ prev = NoPrev
    /\ seen \in SUBSET Ids
    /\ entries = <<>> /\ fetched = {}
    /\ postOk = FALSE /\ saveErr = FALSE /\ loaded = {}
    /\ runPosted = {} /\ attempted = {} /\ failed = {}
    /\ readErr = FALSE

reloadFrame ==
    <<config, use_api, net, post, rss, api, ret, cyc, slept, ended, mode,
      entries, postOk, fetches, postedEver, runPosted, attempted, failed,
      file0, fetched>>

\* save_seen_videos(seen_videos), the last thing the process does
ReloadSave ==
    /\ pc = "rs_save"
    /\ \E o \in save_seen_videos(seen, file) :
         /\ file' = o.file
         /\ saveErr' = o.err
         /\ prev' = [set |-> seen, ok |-> ~ o.err]
    /\ pc' = "rs_end"
    /\ UNCHANGED <<reloadFrame, seen, bak, loaded, readErr, restarts>>

\* the process ends and another one is started
ReloadRestart ==
    /\ pc = "rs_end"
    /\ seen' = {} /\ saveErr' = FALSE
    /\ restarts' = restarts + 1
    /\ pc' = "rs_load"
    /\ UNCHANGED <<reloadFrame, file, bak, loaded, readErr, prev>>

\* seen_videos = load_seen_videos() of the new process
ReloadLoad ==
    /\ pc = "rs_load"
    /\ DoLoad
    /\ pc' = "rs_done"
    /\ UNCHANGED <<reloadFrame, saveErr, restarts, prev>>

ReloadNext == ReloadSave \/ ReloadRestart \/ ReloadLoad

SpecReload == ReloadInit /\ [][ReloadNext]_vars

----------------------------------------------------------------------------
(* Startup: main() from the loaded configuration to build_database() or to *)
(* the monitoring loop ("load"), or to sys.exit(1) ("exit1").              *)

\* the values of EXAMPLE_CONFIG that validate_config rejects in the three
\* required fields
Placeholders ==
    {"YOUR_CHANNEL_ID_HERE", "yourhandle.bsky.social", "your-app-password-here"}

\* "not api_key or api_key == 'YOUR_YOUTUBE_API_KEY_HERE'"
NoApiKey(c) == c.api_key = "" \/ c.api_key = "YOUR_YOUTUBE_API_KEY_HERE"

\* a validate_config that accepts the placeholder values
missing_NoPlaceholders(c, require_api_key) ==
    {f \in {"channel", "handle", "password"} : c[f] = ""}
        \cup (IF require_api_key /\ NoApiKey(c) THEN {"api_key"} ELSE {})

\* the list "missing" that validate_config builds
missing(c, require_api_key) ==
    {f \in {"channel", "handle", "password"} : c[f] = "" \/ c[f] \in Placeholders}
        \cup (IF require_api_key /\ NoApiKey(c) THEN {"api_key"} ELSE {})

validate_config(c, require_api_key) == missing(c, require_api_key) = {}

\* the checks of main() when args.build_db is set
BuildConfigOk(c, use_youtube_api) ==
    /\ ~ (c.channel = "" \/ c.channel = "YOUR_CHANNEL_ID_HERE")
    /\ use_youtube_api => ~ NoApiKey(c)

ChannelValues == {"", "YOUR_CHANNEL_ID_HERE", "abc", "UCok"}
HandleValues == {"", "yourhandle.bsky.social", "me.bsky.social"}
PasswordValues == {"", "your-app-password-here", "pw"}
ApiKeyValues == {"", "YOUR_YOUTUBE_API_KEY_HERE", "key"}

StartupInit ==
    /\ mode \in Modes
    /\ pc = "start"
    /\ file = Missing
    /\ file0 = file
    /\ bak = FALSE
    /\ fetches = 0 /\ restarts = 0
    /\ postedEver = {}
    /\ \E c \in ChannelValues, h \in HandleValues, p \in PasswordValues,
          k \in ApiKeyValues :
         config = Config(c, h, p, k, Absent)
    /\ use_api \in BOOLEAN
    /\ slept = 0 /\ ended = "no"
    /\ net = NoNet /\ post = NoPost /\ NoFetch
    /\ Fresh

\* the validation of main(), lines 1566-1591
Startup ==
    /\ pc = "start"
    /\ pc' = IF mode = "build"
             THEN (IF BuildConfigOk(config, use_api) THEN "load" ELSE "exit1")
             ELSE (IF validate_config(config, use_api) THEN "load" ELSE "exit1")
    /\ UNCHANGED <<settings, mode, seen, file, bak, entries, postOk, saveErr,
                   fetches, restarts, loaded, postedEver, runPosted, attempted,
                   failed, file0, readErr, fetched>>

StartupNext == Startup

SpecStartup == StartupInit /\ [][StartupNext]_vars

----------------------------------------------------------------------------
(* One call of post_to_bluesky under every behaviour of the network, with  *)
(* and without credentials in the configuration.                           *)

PostInit ==
    /\ mode = "monitor"
    /\ pc = "publish"
    /\ file = Missing
    /\ file0 = file
    /\ bak = FALSE
    /\ fetches = 0 /\ restarts = 0
    /\ postedEver = {}
    /\ \E h \in {"", "me.bsky.social"}, p \in {"", "pw"} :
         config = Config("UCok", h, p, "key", Absent)
    /\ use_api = FALSE
    /\ slept = 0 /\ ended = "no"
    /\ net \in Nets /\ post = NoPost /\ NoFetch
    /\ Fresh

Publish ==
    /\ pc = "publish"
    /\ post' = post_to_bluesky(config, net)
    /\ postOk' = post'.ok
    /\ pc' = "published"
    /\ UNCHANGED <<config, use_api, net, rss, api, ret, cyc, prev, slept, ended, mode,
                   seen,
                   file, bak,
                   entries, saveErr, fetches, restarts, loaded, postedEver,
                   runPosted, attempted, failed, file0, readErr, fetched>>

PostNext == Publish

SpecPost == PostInit /\ [][PostNext]_vars

\* One call of get_videos(), with either provider, every configured
\* api_max_results and every answer of the network.
FetchInit ==
    /\ mode = "monitor"
    /\ pc = "get_videos"
    /\ file = Missing
    /\ file0 = file
    /\ bak = FALSE
    /\ fetches = 0 /\ restarts = 0
    /\ postedEver = {}
    /\ \E c \in {"UCok", "abc"}, k \in {"", "key"} :
         config = Config(c, "me.bsky.social", "pw", k, Absent)
    /\ use_api \in BOOLEAN
    /\ slept = 0 /\ ended = "no"
    /\ net = NoNet /\ post = NoPost
    /\ IF use_api
       THEN rss = NoRss /\ \E m \in ApiMaxValues : api = [NoApi EXCEPT !.conf = m]
       ELSE rss \in RssFeeds /\ api = NoApi
    /\ ret = NoRet /\ cyc = NoCyc /\ prev = NoPrev
    /\ Fresh

\* what one call of get_videos leaves alone
fetchFrame ==
    <<config, use_api, net, post, rss, cyc, prev, slept, ended, mode, seen, file,
      bak,
      entries, postOk, saveErr, fetches, restarts, loaded, postedEver,
      runPosted, attempted, failed, file0, readErr, fetched>>

\* get_videos() with the RSS provider: get_youtube_feed()
GetFeed ==
    /\ pc = "get_videos" /\ ~ use_api
    /\ ret' = Ret("returned", get_youtube_feed(rss), FeedWarned(rss))
    /\ pc' = "fetched"
    /\ UNCHANGED <<fetchFrame, api>>

\* get_youtube_feed_api() up to the while loop
ApiStart ==
    /\ pc = "get_videos" /\ use_api
    /\ IF config.api_key = "" \/ ~ StartsWithUC(config.channel)
       THEN /\ ret' = Ret("returned", <<>>, TRUE)
            /\ pc' = "fetched"
            /\ api' = api
       ELSE /\ api' = [api EXCEPT !.max = max_results(api.conf)]
            /\ pc' = "page"
            /\ ret' = ret
    /\ UNCHANGED fetchFrame

\* one turn of the while loop: a page is requested and handled
ApiPage ==
    /\ pc = "page" /\ Len(api.reqs) < MaxPages
    /\ LET remaining == api.max - Len(api.acc)
           per == per_page(remaining)
           p == Len(api.reqs) + 1
           req == [per |-> per, had |-> Len(api.acc), token |-> api.token]
       IN  \E pg \in Pages(per) :
             LET all_entries == api.acc \o Kept(p, pg)
                 asked == [api EXCEPT !.reqs = Append(@, req),
                                      !.served = Append(@, pg)]
             IN  IF pg.kind \in Exceptions \ ApiCaught
                 THEN /\ ret' = Ret("raised", <<>>, FALSE)
                      /\ pc' = "fetched" /\ api' = asked
                 ELSE IF pg.kind \in PageErrors
                 THEN /\ ret' = Ret("returned", OnError(api.acc), TRUE)
                      /\ pc' = "fetched" /\ api' = asked
                 ELSE IF pg.n = 0
                 THEN /\ ret' = Ret("returned", api.acc, FALSE)
                      /\ pc' = "fetched" /\ api' = asked
                 ELSE IF ~ pg.more \/ ~ (Len(all_entries) < api.max)
                 THEN /\ ret' = Ret("returned", all_entries, pg.lacking # "none")
                      /\ pc' = "fetched"
                      /\ api' = [asked EXCEPT !.acc = all_entries,
                                              !.token = pg.more]
                 ELSE /\ api' = [asked EXCEPT !.acc = all_entries,
                                              !.token = TRUE]
                      /\ pc' = "page" /\ ret' = ret
    /\ UNCHANGED fetchFrame

FetchNext == GetFeed \/ ApiStart \/ ApiPage

SpecFetch == FetchInit /\ [][FetchNext]_vars

\* One fetch, gone through by check_for_new_videos in the order given and
\* in another order, with the same answers of post_to_bluesky per id and
\* the same outcomes of the save calls in turn.
OrderInit ==
    /\ mode = "monitor"
    /\ pc = "order1"
    /\ file = Missing
    /\ file0 = file
    /\ bak = FALSE
    /\ fetches = 0 /\ restarts = 0
    /\ postedEver = {}
    /\ config = ValidConfig
    /\ use_api = FALSE
    /\ slept = 0 /\ ended = "no"
    /\ net = NoNet /\ post = NoPost
    /\ rss = NoRss /\ api = NoApi /\ ret = NoRet /\ prev = NoPrev
    /\ \E es \in FetchResults, S \in SUBSET Ids, ok \in [Ids -> BOOLEAN],
          sv \in [1..MaxEntries -> SaveKinds] :
         cyc = [NoCyc EXCEPT !.es = es, !.seen0 = S, !.ok = ok, !.saves = sv]
    /\ Fresh

orderFrame ==
    <<config, use_api, net, post, rss, api, ret, prev, slept, ended, mode, seen,
      file, bak, entries, postOk, saveErr, fetches, restarts, loaded,
      postedEver, runPosted, attempted, failed, file0, readErr, fetched>>

\* check_for_new_videos(seen_videos) on the entries as fetched
RunFirst ==
    /\ pc = "order1"
    /\ cyc' = [cyc EXCEPT !.first =
                 RunCycle(cyc.es, CycleState(cyc.seen0, IdFile(cyc.seen0), {}, 0),
                          cyc.ok, cyc.saves)]
    /\ pc' = "order2"
    /\ UNCHANGED orderFrame

\* check_for_new_videos(seen_videos) on the same entries in another order
RunSecond ==
    /\ pc = "order2"
    /\ \E es \in Orderings(cyc.es) :
         cyc' = [cyc EXCEPT !.other = es, !.second =
                   RunCycle(es, CycleState(cyc.seen0, IdFile(cyc.seen0), {}, 0),
                            cyc.ok, cyc.saves)]
    /\ pc' = "ordered"
    /\ UNCHANGED orderFrame

OrderNext == RunFirst \/ RunSecond

SpecOrder == OrderInit /\ [][OrderNext]_vars

----------------------------------------------------------------------------
(* Properties                                                              *)

\* an entry of this cycle's fetch that the for loop has already passed
Passed(e) == e \in fetched /\ e \notin Range(entries)

\* C1: in monitoring mode post_to_bluesky is never running for an id that
\* is in seen_videos, and no id the store gave at start is attempted.
C1_SeenNeverPosted ==
    mode = "monitor" =>
        /\ pc = "post" => video_id(Cur) \notin seen
        /\ attempted \cap loaded = {}

\* An entry whose id came from the store has been passed without a post.
C1_Witness ==
    /\ mode = "monitor" /\ pc = "item"
    /\ \E e \in fetched :
         /\ Passed(e) /\ video_url(e) # ""
         /\ video_id(e) \in loaded /\ video_id(e) \notin attempted

\* C2 as claimed: over all processes (stops, crashes and restarts
\* included) no id is posted successfully a second time.
C2_AtMostOnceEver ==
    [][(pc = "post" /\ pc' = "mark") => video_id(Cur) \notin postedEver]_vars

\* C2 amended: within one process no id is posted successfully twice, and
\* an id that load_seen_videos returned to the process is never posted by
\* it; a later process may post an id again when its load did not return it.
C2_AtMostOncePerProcess ==
    pc = "post" => video_id(Cur) \notin (runPosted \cup loaded)

\* After a restart, an id this process posted in an earlier cycle is fetched
\* again and passed without a post.
C2_Witness ==
    /\ restarts >= 1 /\ mode = "monitor" /\ pc = "item" /\ attempted = {}
    /\ \E e \in fetched :
         /\ Passed(e) /\ video_url(e) # ""
         /\ video_id(e) \in runPosted

\* C3 as claimed: after a post that succeeded, before the next entry is
\* processed, the id is in seen_videos and in the store file.
C3_SeenAndStored ==
    (mode = "monitor" /\ pc = "delay" /\ postOk) =>
        /\ video_id(Cur) \in seen
        /\ video_id(Cur) \in FileIds(file)

\* C3 amended: after a post that succeeded, before the next entry is
\* processed, the id is in seen_videos, and it is in the store file (which
\* then holds exactly seen_videos) unless save_seen_videos logged a failure.
C3_SeenAndStoredUnlessSaveFailed ==
    (mode = "monitor" /\ pc = "delay" /\ postOk) =>
        /\ video_id(Cur) \in seen
        /\ ~ saveErr => (video_id(Cur) \in FileIds(file) /\ FileIds(file) = seen)

\* A post succeeded and was saved while another entry is still to come.
C3_Witness ==
    /\ mode = "monitor" /\ pc = "delay" /\ postOk /\ ~ saveErr
    /\ Len(entries) >= 2
    /\ video_id(Cur) \in FileIds(file)

\* the ids of the fetched entries that carry a url
Usable(E) == IdsOf({e \in E : video_url(e) # ""})

\* a monitoring cycle that has visited every entry of its fetch
CycleComplete == mode = "monitor" /\ pc = "sleep" /\ entries = <<>>

\* C4 as claimed, read in its favour (the store was read at start, the
\* cycle ran to its end, the fetch holds the id with a url; the claim
\* says more, so what refutes this refutes the claim): after a failed
\* post the id is in neither seen_videos nor the store file, and every
\* later cycle whose fetch holds the id calls post_to_bluesky for it.
C4_AbsentAndAlwaysRetried ==
    /\ (mode = "monitor" /\ pc = "delay" /\ ~ postOk /\ ~ readErr) =>
           (video_id(Cur) \notin seen /\ video_id(Cur) \notin FileIds(file))
    /\ CycleComplete =>
           \A x \in failed \cap Usable(fetched) : x \in attempted

\* C4 amended: after a failed post the id is not in seen_videos, and not in
\* the store file when the store was read at start; a later cycle that
\* runs to its end and whose fetch holds the id with a url calls
\* post_to_bluesky for it again unless the id has entered seen_videos
\* in between.
C4_AbsentAndRetriedWhileUnseen ==
    /\ (mode = "monitor" /\ pc = "delay" /\ ~ postOk) =>
           /\ video_id(Cur) \notin seen
           /\ ~ readErr => video_id(Cur) \notin FileIds(file)
    /\ CycleComplete =>
           \A x \in failed \cap Usable(fetched) : x \in attempted \/ x \in seen

\* The post of an id failed in an earlier cycle and is tried again.
C4_Witness ==
    /\ mode = "monitor" /\ pc = "post"
    /\ Len(entries) = MaxEntries
    /\ video_id(Cur) \in failed

\* C5: every id the monitoring process has put into seen_videos beyond
\* what it loaded is an id for which a post returned success before; in
\* build mode the ids added are ids of fetched entries.
C5_MarkedOnlyAfterSuccess ==
    /\ mode = "monitor" => (seen \ loaded) \subseteq runPosted
    /\ mode = "build" => (seen \ loaded) \subseteq IdsOf(fetched)

\* An id has just been added after its post succeeded.
C5_Witness ==
    /\ mode = "monitor" /\ pc = "delay" /\ postOk
    /\ video_id(Cur) \in seen \ loaded

\* C6 as claimed, read in its favour (the store was read at start): when
\* build mode ends, the store file holds the loaded set united with the
\* ids of the fetched entries.
C6_BuildStoresUnion ==
    (mode = "build" /\ pc = "done" /\ ~ readErr) =>
        FileIds(file) = loaded \cup IdsOf(fetched)

\* position of a build process along its only path
Rank(p) == CASE p = "load" -> 0 [] p = "fetch" -> 1 [] p = "item" -> 2
             [] OTHER -> 3

\* C6 amended: build mode makes one fetch (get_videos is reached from the
\* load only), never calls post_to_bluesky, and ends (every step moves
\* forward or shortens the entries left); at its end seen_videos is the
\* loaded set united with the ids of the fetched entries, and the store
\* file holds that set when the fetch was not empty and the save did not
\* fail; an empty fetch ends without writing the file.
C6_BuildRegistersAll ==
    [][(mode = "build" /\ mode' = "build" /\ restarts' = restarts) =>
         /\ pc' = "fetch" => pc = "load"
         /\ pc' \notin {"post", "mark", "delay", "sleep", "stopped"}
         /\ attempted' = {} /\ postedEver' = postedEver
         /\ \/ Rank(pc') > Rank(pc)
            \/ Rank(pc') = Rank(pc) /\ Len(entries') < Len(entries)
         /\ (pc = "fetch" /\ pc' = "done") => file' = file
         /\ pc' = "done" =>
              /\ seen' = loaded' \cup IdsOf(fetched')
              /\ (fetched' # {} /\ ~ saveErr') => FileIds(file') = seen'
      ]_vars

\* Build mode ended after registering an id the store did not hold.
C6_Witness ==
    /\ mode = "build" /\ pc = "done" /\ ~ saveErr
    /\ IdsOf(fetched) \ loaded # {}
    /\ FileIds(file) = loaded \cup IdsOf(fetched)

C8_LoadDistinct ==
    (pc = "rt_save" /\ file0.kind = "list" /\ ~ readErr) =>
        /\ \A x \in Ids : x \in seen <=> \E i \in DOMAIN file0.data : file0.data[i] = x
        /\ seen \subseteq Ids
        /\ file0.data = <<"v1", "v2", "v1">> => Cardinality(seen) = 2

\* The list ["v1","v2","v1"] has been loaded.
C8_Witness ==
    /\ pc = "rt_save" /\ ~ readErr
    /\ file0.data = <<"v1", "v2", "v1">>
    /\ seen = {"v1", "v2"}

\* C9 as claimed, read in its favour (the file could be opened): a missing
\* file gives the empty set; a file json.load rejects gives the empty set
\* and is renamed aside.
C9_MalformedRenamed ==
    (pc = "rt_save" /\ ~ readErr) =>
        /\ file0.kind = "missing" => seen = {}
        /\ file0.kind = "badjson" => (seen = {} /\ file = Missing /\ bak)

\* C9 amended: load_seen_videos returns the empty set for a missing file,
\* for a file it cannot read and for content that is not a JSON list; a
\* file json.load rejects is renamed to .corrupt.bak or, when the rename
\* fails, left in place; any other file is left in place; load always
\* returns to its caller.
C9_FailSoft ==
    pc = "rt_save" =>
        /\ (file0.kind # "list" \/ readErr) => seen = {}
        /\ (file0.kind = "badjson" /\ ~ readErr) =>
               \/ file = Missing /\ bak
               \/ file = file0 /\ ~ bak
        /\ (file0.kind # "badjson" \/ readErr) => (file = file0 /\ ~ bak)

\* A corrupted file has been renamed aside.
C9_Witness ==
    /\ pc = "rt_save" /\ file0 = BadJson
    /\ file = Missing /\ bak /\ seen = {}

\* C10: when the store file does not hold the id after the save of a
\* posted entry, an error was logged, the loop goes on to the delay with
\* the id in seen_videos, every id this process posted stays in
\* seen_videos, and no later post is started for an id that is only in
\* memory.
C10_SaveFailureKeepsMemory ==
    mode = "monitor" =>
        /\ (pc = "delay" /\ postOk /\ video_id(Cur) \notin FileIds(file)) =>
               (saveErr /\ video_id(Cur) \in seen)
        /\ Alive => (runPosted \ seen) \subseteq
                        (IF pc = "mark" THEN {video_id(Cur)} ELSE {})
        /\ pc = "post" => video_id(Cur) \notin (seen \ FileIds(file))

\* In a later cycle an id that was posted but never written to the store
\* file is fetched again and passed without a post.
C10_Witness ==
    /\ mode = "monitor" /\ pc = "item" /\ attempted = {}
    /\ \E e \in fetched :
         /\ Passed(e) /\ video_url(e) # ""
         /\ video_id(e) \in runPosted
         /\ video_id(e) \notin FileIds(file)

\* C11: a process that ends while it is in save_seen_videos leaves the store
\* file either as it was before the save or holding the complete new set,
\* never a cut-off text.
C11_SaveCrashAtomic ==
    [][(pc' \in {"crashed", "stopped"}
          /\ \/ mode = "monitor" /\ pc = "mark"
             \/ mode = "build" /\ pc = "item" /\ entries = <<>>) =>
         \/ file' = file
         \/ file'.kind = "list" /\ FileIds(file') = SavingSet
      ]_vars

\* C12 as claimed: in both modes, at every point of a running process,
\* seen_videos holds at most one id that the store file does not hold.
C12_AtMostOneUnsaved ==
    Alive => Cardinality(seen \ FileIds(file)) <= 1

\* C12 amended: in monitoring mode every step that adds an id to
\* seen_videos also writes the store file, which then holds exactly
\* seen_videos unless the write logged a failure; build mode adds the ids
\* of the fetch without writing the file and writes it once, when it ends.
C12_MonitorSavesEachAdd ==
    [][(Alive /\ pc # "load" /\ seen' # seen /\ pc' \notin {"crashed", "stopped"}) =>
         /\ mode = "monitor" =>
                (saveErr' \/ (file'.kind = "list" /\ FileIds(file') = seen'))
         /\ mode = "build" => (file' = file /\ pc' = "item")
      ]_vars

\* A second id has been posted and the store file holds both.
C12_Witness ==
    /\ mode = "monitor" /\ pc = "delay" /\ postOk /\ ~ saveErr
    /\ Cardinality(runPosted) = 2
    /\ FileIds(file) = seen

\* the positions inside check_for_new_videos
InCycle == pc \in {"fetch", "item", "post", "mark", "delay"}

\* C13: a monitoring cycle is left only towards the sleep of main(), a
\* Ctrl+C and a kill apart, and after a cycle that an exception has cut
\* short (entries are left unvisited) the sleep is followed by the next
\* fetch: the process does not end.
C13_FaultIsolated ==
    [][(mode = "monitor" /\ pc' # pc) =>
         /\ InCycle => (pc' \in {"sleep"} \/ InCycle' \/ ended' \in {"interrupt", "kill"})
         /\ (pc = "sleep" /\ entries # <<>>) =>
                (pc' = "fetch" \/ ended' \in {"interrupt", "kill"})
      ]_vars

\* C14: a Ctrl+C ends the monitoring loop: the process is then stopped
\* (gracefully when the Ctrl+C came inside the cycle) and never goes to the
\* sleep the way a cycle fault does; a process a Ctrl+C has ended takes no
\* further step.
C14_InterruptEndsLoop ==
    [][/\ ended # "interrupt"
       /\ (mode = "monitor" /\ ended' = "interrupt") =>
              /\ pc' \in {"stopped", "crashed"}
              /\ InCycle => pc' = "stopped"
      ]_vars

\* A Ctrl+C has stopped the loop after its second fetch.
C14_Witness ==
    /\ mode = "monitor" /\ pc = "stopped" /\ ended = "interrupt"
    /\ fetches = 2

\* C15: a Ctrl+C never stops the loop between the successful submission of
\* an entry and the recording of its id in seen_videos and the store file.
C15_NoStopBeforeRecording ==
    [][(mode = "monitor" /\ pc = "mark") => ended' # "interrupt"]_vars

\* C16: a monitoring cycle that has visited every entry has called
\* post_to_bluesky for every fetched id with a url that is not in
\* seen_videos, whatever posts failed in it; a failed post leads to the
\* delay and the next entry like a successful one.
C16_SiblingsAttempted ==
    /\ CycleComplete => Usable(fetched) \subseteq (seen \cup attempted)
    /\ (mode = "monitor" /\ pc = "delay" /\ ~ postOk) => video_id(Cur) \in failed

\* In the first cycle the post of one entry has failed and the entry after
\* it is being posted.
C16_Witness ==
    /\ mode = "monitor" /\ pc = "post" /\ fetches = 1 /\ restarts = 0
    /\ failed # {} /\ video_id(Cur) \notin failed
    /\ failed \subseteq attempted

\* C17: a monitoring process ends only by a Ctrl+C (a kill from outside
\* apart): no fetch result, post result, failed save or interval value
\* ends it.
C17_OnlyInterruptEnds ==
    (mode = "monitor" /\ ~ Alive) => ended \in {"interrupt", "kill"}

\* the configured interval is one the claim calls invalid
InvalidInterval ==
    config.interval.kind \in {"str", "nan"}
        \/ (config.interval.kind = "int" /\ ~ (config.interval.val > 0))

\* C19: the value main() passes to time.sleep is a positive number of
\* seconds: 600 when the configured interval is not a number, zero or
\* negative.
C19_SleepsPositive ==
    (mode = "monitor" /\ pc = "sleep") =>
        /\ check_interval.kind = "int" /\ check_interval.val > 0
        /\ InvalidInterval => check_interval = Seconds(DefaultInterval)

\* a required text value that is absent, empty or still the example's
Unset(v) == v = "" \/ v \in Placeholders \/ v = "YOUR_YOUTUBE_API_KEY_HERE"

\* a channel id of the form YouTube gives: "UC" and the rest
WellFormedChannel(v) == v = "UCok"

\* C18 as claimed: with missing credentials, a malformed channel id, or no
\* API key while the API provider is selected, the process exits with
\* status 1 at startup, before any fetch or post.
C18_BadConfigExits ==
    (pc # "start"
       /\ \/ Unset(config.handle) \/ Unset(config.password)
          \/ ~ WellFormedChannel(config.channel)
          \/ use_api /\ Unset(config.api_key)) =>
        (pc = "exit1" /\ fetches = 0 /\ postedEver = {})

\* C18 amended: the process exits with status 1 at startup, before any
\* fetch or post, exactly when the channel id is absent, empty or the
\* example's, or the API key is while the API provider is selected, or, in
\* monitoring mode, the handle or the password is; a channel id that is
\* present but malformed is accepted, and build mode asks for no
\* credentials.
C18_UnsetConfigExits ==
    pc # "start" =>
        /\ pc = "exit1" <=>
              \/ Unset(config.channel)
              \/ use_api /\ Unset(config.api_key)
              \/ mode = "monitor" /\ (Unset(config.handle) \/ Unset(config.password))
        /\ pc = "exit1" => (fetches = 0 /\ postedEver = {})

\* Monitoring mode with the API provider and no API key has exited.
C18_Witness ==
    /\ pc = "exit1" /\ mode = "monitor" /\ use_api
    /\ config.api_key = "" /\ config.channel = "UCok"
    /\ ~ Unset(config.handle) /\ ~ Unset(config.password)

\* some thumbnail url gave an image and the upload of an image works
ThumbnailResolved ==
    /\ net.idOk /\ net.upload
    /\ \E i \in 1..NumThumbnails : net.cands[i] = "image"

\* C20: post_to_bluesky returns True exactly when the login succeeded and
\* send_post succeeded, which the network decides without the thumbnail
\* (credentials present, login, a template that formats, send_post); when
\* no thumbnail is resolved the post is sent all the same, without image.
C20_PublishResult ==
    pc = "published" =>
        /\ postOk <=> (post.login /\ post.sent)
        /\ postOk <=> /\ config.handle # "" /\ config.password # ""
                      /\ net.login /\ Formats(net) /\ net.send
        /\ post.image <=> (post.sent /\ ThumbnailResolved)

\* Every thumbnail url failed and the post was sent without an image.
C20_Witness ==
    /\ pc = "published" /\ postOk /\ post.sent /\ ~ post.image
    /\ net.idOk /\ \A i \in 1..NumThumbnails : net.cands[i] = "error"

\* post_to_bluesky got as far as client.login
LoginTried == config.handle # "" /\ config.password # ""

\* C21: when client.login raises, post_to_bluesky returns False and does
\* nothing after it: no thumbnail url is requested, nothing is uploaded and
\* send_post is not called.
C21_LoginFailureStops ==
    (pc = "published" /\ LoginTried /\ ~ net.login) =>
        /\ ~ postOk /\ ~ post.login
        /\ post.tried = 0 /\ post.upl = 0
        /\ post.sends = 0 /\ ~ post.sent /\ ~ post.image

\* The login failed on a network where every later step would have worked.
C21_Witness ==
    /\ pc = "published" /\ LoginTried /\ ~ net.login /\ ~ postOk
    /\ net.template = "ok" /\ net.idOk /\ net.cands[1] = "image"
    /\ net.upload /\ net.send

\* the positions of the thumbnail urls that answer with an image
Images == {i \in 1..NumThumbnails : net.cands[i] = "image"}

\* post_to_bluesky got as far as the for loop over thumbnail_urls
ThumbnailsTried ==
    pc = "published" /\ LoginTried /\ net.login /\ Formats(net) /\ net.idOk

\* C22: the thumbnail urls are requested in order; the first body of more
\* than 1000 bytes is the one uploaded and no later url is requested; with
\* two undersized bodies and then an image the third is used and
\* post_to_bluesky returns True when send_post succeeds.
C22_FirstImageUsed ==
    ThumbnailsTried =>
        /\ Images = {} => post.tried = NumThumbnails /\ post.upl = 0
        /\ Images # {} =>
              /\ post.upl \in Images /\ post.tried = post.upl
              /\ \A i \in Images : post.upl <= i
        /\ post.image <=> (post.upl # 0 /\ net.upload /\ post.sent)
        /\ (net.cands = <<"small", "small", "image">> /\ net.upload
            /\ net.send) =>
              post.upl = 3 /\ post.tried = 3 /\ post.image /\ postOk

\* Two undersized bodies, then an image: the third url is the one used.
C22_Witness ==
    /\ ThumbnailsTried /\ net.cands = <<"small", "small", "image">>
    /\ net.upload /\ net.send /\ post.upl = 3 /\ post.image /\ postOk

\* C23: with a placeholder the template does not know, post_to_bluesky uses
\* the default text, goes on to the thumbnail and to send_post, and returns
\* what send_post decides.
C23_UnknownPlaceholderFallsBack ==
    (pc = "published" /\ LoginTried /\ net.login
     /\ net.template \in {"keyerror", "indexerror"}) =>
        /\ post.fallback
        /\ post.sends = 1
        /\ net.idOk => post.tried > 0
        /\ postOk <=> net.send

\* the page the last request was answered with
LastPage == api.served[Len(api.served)]

\* get_youtube_feed_api has requested at least one page
Paged == use_api /\ pc \in {"page", "fetched"} /\ api.served # <<>>

\* C24: every page request asks for at most 50 items and at most
\* max_results minus the entries accumulated; after a page of items another
\* page is requested exactly when fewer than max_results entries are
\* accumulated and the provider named a next page (an empty page or a page
\* without nextPageToken being the provider's report that there is no
\* further page); the list returned is never longer than max_results, the
\* configured api_max_results or 15 when that is not an integer >= 1.
C24_PageBudget ==
    Paged =>
        /\ api.max = IF api.conf.kind = "int" /\ api.conf.val >= 1
                     THEN api.conf.val ELSE DefaultMaxResults
        /\ \A i \in DOMAIN api.reqs :
              /\ api.reqs[i].per >= 1
              /\ api.reqs[i].per <= PageCap
              /\ api.reqs[i].per <= api.max - api.reqs[i].had
              /\ api.reqs[i].token <=> i > 1
        /\ LastPage.kind = "ok" =>
              (pc = "page" <=> /\ Len(api.acc) < api.max
                               /\ LastPage.more /\ LastPage.n > 0)
        /\ Len(api.acc) <= api.max
        /\ ret.state = "returned" => Len(ret.items) <= api.max

\* With api_max_results 52 a page of 50 and a page of 2 were requested and
\* 52 entries returned.
C24_Witness ==
    /\ Paged /\ pc = "fetched" /\ api.conf = IntMax(52)
    /\ Len(api.reqs) = 2 /\ api.reqs[1].per = 50 /\ api.reqs[2].per = 2
    /\ Len(ret.items) = 52

\* item i of page pg carries a videoId
HasId(pg, i) == pg.lacking = "none" \/ (pg.lacking = "first" /\ i > 1)

\* the items with a videoId of the pages before the last one
EarlierItems ==
    UNION {{<<q, i>> : i \in {j \in 1..api.served[q].n :
                                HasId(api.served[q], j)}} :
             q \in 1..(Len(api.served) - 1)}

\* page by page, and within a page in the order given
InOrder(items) ==
    \A a, b \in DOMAIN items :
        a < b => \/ items[a][1] < items[b][1]
                 \/ items[a][1] = items[b][1] /\ items[a][2] < items[b][2]

C26_FetchNeverRaises ==
    pc = "fetched" =>
        /\ ret.state = "returned"
        /\ (use_api /\ api.served # <<>> /\ LastPage.kind \in PageErrors) =>
              ret.items = api.acc
        /\ (~ use_api /\ rss.raises) => ret.items = <<>>

\* A page request of the API provider timed out.
C26_Witness ==
    /\ Paged /\ pc = "fetched" /\ LastPage.kind = "timeout"
    /\ ret.state = "returned"

C28_RetriedUntilRecorded ==
    /\ [](CycleComplete => Usable(fetched) \subseteq (attempted \cup seen))
    /\ [][/\ (pc' = "post" /\ pc # "post") => video_id(Cur') \notin seen'
          /\ ended' = "no" => seen \subseteq seen'
          /\ (pc = "sleep" /\ pc' = "fetch") => slept' = check_interval.val]_vars
    /\ \A x \in Ids :
         (pc = "mark" /\ video_id(Cur) = x) ~> (x \in seen \/ ended # "no")

\* The post of an id that failed in an earlier cycle has now succeeded and
\* the id is recorded.
C28_Witness ==
    /\ mode = "monitor" /\ pc = "delay" /\ postOk
    /\ video_id(Cur) \in failed /\ video_id(Cur) \in seen
    /\ fetches = MaxFetches

\* every call of save_seen_videos a run made wrote the file
SavesWorked(st) == \A k \in 1..st.saved : cyc.saves[k] = "ok"

\* C29 as claimed: the ids post_to_bluesky is called for, seen_videos and
\* the store at the end of the cycle are the same for both orders.
C29_OrderNeverMatters ==
    pc = "ordered" =>
        /\ cyc.first.attempted = cyc.second.attempted
        /\ cyc.first.seen = cyc.second.seen
        /\ cyc.first.file = cyc.second.file

\* C29: for two orders of the same entries and the same answer of
\* post_to_bluesky per id, the ids post_to_bluesky is called for and the
\* seen_videos at the end are the same, as is the number of saves; the
\* store at the end is the same when every save wrote the file (it then
\* holds seen_videos).
C29_OrderIndependentWhenSaved ==
    pc = "ordered" =>
        /\ cyc.first.attempted = cyc.second.attempted
        /\ cyc.first.seen = cyc.second.seen
        /\ cyc.first.saved = cyc.second.saved
        /\ SavesWorked(cyc.first) =>
              /\ cyc.first.file = cyc.second.file
              /\ cyc.first.saved > 0 => cyc.first.file = IdFile(cyc.first.seen)

\* Two entries with different ids went through in both orders, one post
\* failing and one succeeding.
C29_Witness ==
    /\ pc = "ordered" /\ cyc.other # cyc.es /\ Len(cyc.es) = 2
    /\ cyc.first.attempted = {"v1", "v2"} /\ cyc.first.seen = {"v2"}
    /\ cyc.second.seen = {"v2"} /\ SavesWorked(cyc.first)

\* the entries of this cycle's fetch the for loop has not visited
Unvisited ==
    IF pc = "item" THEN entries
    ELSE IF pc \in {"post", "mark", "delay"} THEN Tail(entries)
    ELSE <<>>

\* the step that begins time.sleep(check_interval)
SleepStarts == mode = "monitor" /\ pc # "sleep" /\ pc' = "sleep"

\* C30 as claimed: get_videos is called only at the start and after the
\* sleep, the sleep is left only for the next call (or the end of the
\* process), and the sleep starts only when every entry of the fetch has
\* been visited, whether the fetch was empty or a fault was caught.
C30_SleepAfterAllItems ==
    [][/\ (mode = "monitor" /\ pc # "fetch" /\ pc' = "fetch") =>
              pc \in {"load", "sleep"}
       /\ (mode = "monitor" /\ pc = "sleep" /\ pc' # "sleep") =>
              pc' = "fetch" \/ ended' # "no"
       /\ SleepStarts => Unvisited = <<>>]_vars

\* C30: get_videos is called only at the start and after the sleep, the
\* sleep is left only for the next call of get_videos (or the end of the
\* process) and each sleep is one call of time.sleep; the sleep starts
\* when every entry of the fetch has been visited (none, for an empty
\* fetch), or when an exception caught by main() has cut the cycle short,
\* the entries not yet visited being left out.
C30_OneSleepPerCycle ==
    [][/\ (mode = "monitor" /\ pc # "fetch" /\ pc' = "fetch") =>
              pc \in {"load", "sleep"}
       /\ (mode = "monitor" /\ pc = "sleep" /\ pc' # "sleep") =>
              pc' = "fetch" \/ ended' # "no"
       /\ (mode = "monitor" /\ pc = "sleep" /\ pc' = "fetch") =>
              slept' = check_interval.val
       /\ SleepStarts => (Unvisited = <<>> \/ CycleFault)
       /\ (SleepStarts /\ Unvisited = <<>>) =>
              pc \in {"fetch", "item", "delay"}]_vars

\* The sleep has begun after a fault with no entry of the fetch visited.
C30_Witness ==
    /\ mode = "monitor" /\ pc = "sleep" /\ Len(entries) = MaxEntries
    /\ attempted = {} /\ fetches = 1

\* C31: post_to_bluesky is called from the head of the for loop only; once
\* called, the loop comes back to its head only through time.sleep(2),
\* after a success (by way of the add and save) as after a failure; the
\* delay moves to the next entry of the same fetch and is not the sleep of
\* main(): it leaves the time slept and the count of fetches alone.
C31_DelayBetweenPosts ==
    [][/\ (pc # "post" /\ pc' = "post") => pc = "item"
       /\ (mode = "monitor" /\ pc = "post" /\ pc' # "post" /\ ended' = "no") =>
              pc' = IF postOk' THEN "mark" ELSE "delay"
       /\ (mode = "monitor" /\ pc = "mark" /\ pc' # "mark" /\ ended' = "no") =>
              pc' = "delay"
       /\ (mode = "monitor" /\ pc = "delay" /\ pc' = "item") =>
              /\ entries' = Tail(entries)
              /\ slept' = slept /\ fetches' = fetches
              /\ fetched' = fetched]_vars

\* The second post of a cycle is running, after the delay that followed
\* the first.
C31_Witness ==
    /\ mode = "monitor" /\ pc = "post" /\ Len(entries) = 1
    /\ attempted = {"v1", "v2"}

\* C32: no id has two successful posts in one cycle: a post that succeeds
\* is for an id with no earlier success, and an entry whose id has had a
\* successful post is passed over by the loop, which goes to the next
\* entry without calling post_to_bluesky.
C32_DuplicateIdPostedOnce ==
    [][mode = "monitor" =>
         /\ (pc = "post" /\ pc' = "mark") => video_id(Cur) \notin runPosted
         /\ (pc = "item" /\ InLoop /\ video_id(Cur) \in runPosted
             /\ pc' # "sleep" /\ ended' = "no") =>
               /\ pc' = "item" /\ entries' = Tail(entries)
               /\ attempted' = attempted /\ runPosted' = runPosted
               /\ seen' = seen /\ file' = file]_vars

\* A fetch held the id v1 twice: the first entry was posted in this cycle
\* and the loop is at the second.
C32_Witness ==
    /\ mode = "monitor" /\ pc = "item" /\ fetches = 1 /\ loaded = {}
    /\ entries = <<Entry("v1", "u1")>> /\ fetched = {Entry("v1", "u1")}
    /\ "v1" \in runPosted /\ "v1" \in attempted

\* C33: while the process runs no step takes an id out of seen_videos, and
\* the steps that end a cycle and start the next one (the return or the
\* caught exception, the sleep, the call of get_videos) leave the set as it
\* is, so the next cycle tests against every id recorded before.
C33_SeenOnlyGrows ==
    [][(Alive /\ pc' \notin {"stopped", "crashed"}) =>
         /\ seen \subseteq seen'
         /\ (pc # "load" /\ pc' \in {"sleep", "fetch"}) => seen' = seen
         /\ pc = "fetch" => seen' = seen]_vars

\* An exception has ended a cycle in which an id was recorded: the id is
\* in seen_videos during the sleep.
C33_Witness ==
    /\ mode = "monitor" /\ pc = "sleep" /\ entries # <<>>
    /\ seen # loaded /\ runPosted \subseteq seen /\ runPosted # {}

\* C34, read in its favour (a store file left cut off by a write that
\* failed is set aside; the claim says more, so what refutes this refutes
\* the claim): as long as the first process runs and the store file is a
\* list, the list holds every id the file held when the process started.
C34_StoreKeepsIds ==
    (restarts = 0 /\ file.kind = "list") => FileIds(file0) \subseteq FileIds(file)

\* C35: when save_seen_videos(S) has written the file and the next process
\* can read it, load_seen_videos returns exactly S, whatever the file held
\* before, and the test of the loop then passes over exactly the entries
\* whose id is in S.
C35_ReloadGivesSavedSet ==
    (pc = "rs_done" /\ prev.ok /\ ~ readErr) =>
        /\ file.kind = "list"
        /\ seen = prev.set
        /\ \A e \in EntryPool : AlreadySeen(e, seen) <=> video_id(e) \in prev.set

\* A set of two ids was saved over a file that held something else and
\* has been loaded by the next process.
C35_Witness ==
    /\ pc = "rs_done" /\ prev.ok /\ ~ readErr
    /\ prev.set = {"v1", "v2"} /\ seen = {"v1", "v2"}
    /\ file0 = ListFile(<<"v1", "v1", "v1">>)

\* a step of the for loop, of either mode, at an entry, the process going on
LoopStep == pc = "item" /\ InLoop /\ pc' \notin {"stopped", "crashed"}

\* the entry the loop is at has an empty id or an empty url
NoIdOrUrl == video_id(Cur) = "" \/ video_url(Cur) = ""

\* C36 as claimed: in either mode the loop, at an entry without id or
\* without url, does not call post_to_bluesky and changes neither
\* seen_videos nor the store file; "" never enters seen_videos.
C36_MissingDataIgnored ==
    [][/\ (LoopStep /\ NoIdOrUrl) =>
              /\ pc' # "post" /\ postedEver' = postedEver
              /\ seen' = seen /\ file' = file
       /\ "" \notin seen']_vars

\* C36: in monitoring mode the loop, at an entry without id or without
\* url, does not call post_to_bluesky and changes neither seen_videos nor
\* the store file; in build mode that holds for an entry without id, while
\* an entry with an id and no url is registered like any other; no loop
\* puts "" into seen_videos.
C36_MissingDataIgnoredInMonitor ==
    [][/\ (LoopStep /\ NoIdOrUrl /\ mode = "monitor") =>
              /\ pc' # "post" /\ postedEver' = postedEver
              /\ seen' = seen /\ file' = file
       /\ (LoopStep /\ mode = "build") =>
              /\ pc' # "post" /\ postedEver' = postedEver /\ file' = file
              /\ seen' = IF video_id(Cur) = "" THEN seen
                         ELSE seen \cup {video_id(Cur)}
       /\ "" \notin seen']_vars

\* Build mode has registered and stored the id of an entry without url.
C36_Witness ==
    /\ mode = "build" /\ pc = "done" /\ loaded = {}
    /\ fetched = {Entry("v1", ""), Entry("", "u0")}
    /\ seen = {"v1"} /\ FileIds(file) = {"v1"}

\* C37 as claimed: get_youtube_feed_api never makes more page requests
\* than max_results, whatever the pages hold.
C37_RequestsBounded ==
    (use_api /\ pc \in {"page", "fetched"}) => Len(api.reqs) <= api.max

====
